---- MODULE Spec2Model ----
(***************************************************************************)
(* Model of the courses API: request authentication (auth/auth.js), the    *)
(* GraphQL resolvers (db/schema.js) and the request context (index.js).    *)
(* The relational store is the set of rows of the tables courses and       *)
(* users; every client.query call is one statement applied to it.          *)
(***************************************************************************)
EXTENDS Integers, Sequences, FiniteSets, TLC

(***************************************************************************)
(* Bounds of the model.                                                    *)
(***************************************************************************)
MaxCourses == 2
MaxUsers == 2
MaxTokens == 1
MaxPending == 2

(***************************************************************************)
(* Values.                                                                 *)
(***************************************************************************)
\* JavaScript undefined / an empty result row.
Undefined == [undefined |-> TRUE]

\* A space-free piece of a header that is not a JSON Web Token.
W(s) == [kind |-> "word", text |-> s]

\* new Error(message); some messages carry a value.
Error(message) == [message |-> message]
NoError == Error("")

Roles == {"Regular", "Admin"}

Usernames == {"alice", "bob"}

\* Passwords offered at register and at login.
RegisterPasswords == {"pw1", "pw2"}
LoginPasswords == {"pw1", "pw2", "pw3"}

\* Instants of the wall clock (Date.now(), milliseconds) at which something
\* happens: around the start and around three hours later.
ClockValues == {0, 500, 10799500, 10800000, 10800500}

\* process.env.JWT_SECRET_KEY and a key the server does not use.
key == "JWT_SECRET_KEY"
otherKey == "not the key"

\* expiresIn: "3h", in seconds.
ExpiresIn == 10800

VARIABLES
  courses,       \* rows of table courses
  nextCourseId,  \* serial of courses.id
  users,         \* rows of table users
  now,           \* Date.now(), milliseconds
  issued,        \* tokens returned by login and held by clients, with the
                 \* instant login returned them
  ctx,           \* the context of the request being served: request and user
  pending,       \* deleteCourse resolvers between their SELECT and DELETE
  resp           \* the field resolved last and its outcome

vars == <<courses, nextCourseId, users, now, issued, ctx, pending, resp>>

(***************************************************************************)
(* auth/auth.js                                                            *)
(***************************************************************************)
\* createHash('md5').update(password).digest('hex'); "pw2" and "pw3" stand
\* for a pair of inputs on which MD5 collides.
hashPassword(password) ==
  CASE password = "pw1" -> "md5-1"
    [] password = "pw2" -> "md5-2"
    [] password = "pw3" -> "md5-2"

\* jsonwebtoken sign(payload, key, {expiresIn}): the payload is every field
\* of the object passed in plus iat and exp, in seconds.
sign(payload, k, expiresIn, clock) ==
  LET iat == clock \div 1000
      claims == payload @@ [iat |-> iat, exp |-> iat + expiresIn]
  IN [kind |-> "jwt", payload |-> claims, sig |-> [payload |-> claims, key |-> k]]

\* generateToken with an expiry one second late.
generateTokenLate(user, clock) == sign(user, key, ExpiresIn + 1, clock)

generateToken(user, clock) == sign(user, key, ExpiresIn, clock)

\* jsonwebtoken verify(token, key): throws on a missing token, a string that
\* is not a token, a signature that does not match, an expired token;
\* otherwise returns the decoded payload.
verify(token, k, clock) ==
  IF token = Undefined THEN [threw |-> TRUE, error |-> "jwt must be provided"]
  ELSE IF token.kind # "jwt" THEN [threw |-> TRUE, error |-> "jwt malformed"]
  ELSE IF token.sig # [payload |-> token.payload, key |-> k]
    THEN [threw |-> TRUE, error |-> "invalid signature"]
  ELSE IF clock \div 1000 >= token.payload.exp
    THEN [threw |-> TRUE, error |-> "jwt expired"]
  ELSE [threw |-> FALSE, value |-> token.payload]

\* req.headers.authorization?.split(" ")[1]; a header value is modelled by
\* the sequence of its space-separated parts.
BearerToken(req) ==
  IF "authorization" \notin DOMAIN req.headers THEN Undefined
  ELSE IF Len(req.headers.authorization) >= 2 THEN req.headers.authorization[2]
  ELSE Undefined

\* authenticate without its try/catch.
authenticateNoCatch(req, clock) == verify(BearerToken(req), key, clock)

authenticate(req, clock) ==
  LET v == verify(BearerToken(req), key, clock)
  IN IF v.threw THEN [threw |-> FALSE, value |-> Undefined]
     ELSE [threw |-> FALSE, value |-> v.value]

(***************************************************************************)
(* The statements db/schema.js sends to the store.                         *)
(***************************************************************************)
CourseFields == {"title", "category", "description", "duration", "outcome"}

\* res.rows[0] of a result of at most one row.
FirstRow(rows) == IF rows = {} THEN Undefined ELSE CHOOSE r \in rows : TRUE

\* SELECT * FROM courses WHERE id = $1
SelectCourseById(table, id) == {c \in table : c.id = id}

\* INSERT INTO courses (...) VALUES (...) RETURNING *
InsertCourseRow(serial, input) == [id |-> serial] @@ input

\* COALESCE($n, column): an argument the request leaves out is null.
Coalesce(args, field, column) == IF field \in DOMAIN args THEN args[field] ELSE column

\* UPDATE courses SET f = COALESCE($n, f), ... WHERE id = $1 RETURNING *
UpdatedCourseRow(c, args) ==
  [f \in DOMAIN c |-> IF f \in CourseFields THEN Coalesce(args, f, c[f]) ELSE c[f]]

UpdateCourses(table, args) ==
  {IF c.id = args.id THEN UpdatedCourseRow(c, args) ELSE c : c \in table}

\* A DELETE whose WHERE takes the rows up to the id.
DeleteCourseUpToId(table, id) == {c \in table : c.id > id}

\* DELETE FROM courses WHERE id = $1
DeleteCourseById(table, id) == {c \in table : c.id # id}

\* SELECT * FROM users WHERE username = $1
SelectUserByUsername(table, username) == {u \in table : u.username = username}

\* The rows of a table in the order ORDER BY id ASC gives.
RECURSIVE OrderById(_)
OrderById(rows) ==
  IF rows = {} THEN <<>>
  ELSE LET first == CHOOSE r \in rows : \A o \in rows : r.id <= o.id
       IN <<first>> \o OrderById(rows \ {first})

Reverse(s) == [i \in 1..Len(s) |-> s[Len(s) + 1 - i]]

\* SELECT * FROM courses ORDER BY id ${order} LIMIT $1
SelectCourses(table, order, limit) ==
  LET asc == OrderById(table)
      all == IF order = "DESC" THEN Reverse(asc) ELSE asc
  IN SubSeq(all, 1, IF limit < Len(all) THEN limit ELSE Len(all))

\* SELECT category as id, (json_agg of its courses ORDER BY id) AS courses
\* FROM courses c GROUP BY category
SelectCollections(table) ==
  {[id |-> cat, courses |-> OrderById({c \in table : c.category = cat})] :
     cat \in {c.category : c \in table}}

(***************************************************************************)
(* Requests.                                                               *)
(***************************************************************************)
NoHeaders == [headers |-> <<>>]
Header(parts) == [headers |-> [authorization |-> parts]]

\* A token a client can make from one it holds without the server's key:
\* the same signature over claims with the role raised.
Tampered(t) == [t EXCEPT !.payload = [t.payload EXCEPT !.role = "Admin"]]

\* A token signed with a key that is not the server's.
Forged(clock) ==
  sign([id |-> <<"uuid", "alice">>, username |-> "alice", password |-> "md5-1",
        role |-> "Admin"], otherKey, ExpiresIn, clock)

IssuedTokens == {i.token : i \in issued}

\* What a client can put after the scheme word.
Presentable ==
  IssuedTokens \cup {Tampered(t) : t \in IssuedTokens} \cup {Forged(now), W("garbage")}

Requests ==
  {NoHeaders, Header(<<W("Bearer")>>)}
    \cup {Header(<<W("Bearer"), t>>) : t \in Presentable}
    \cup {Header(<<W("Basic"), t>>) : t \in IssuedTokens}
    \cup {Header(<<t>>) : t \in IssuedTokens}

CourseInputs ==
  { [title |-> "t1", category |-> "cat1", description |-> "d1", duration |-> 1, outcome |-> "o1"],
    [title |-> "t2", category |-> "cat2", description |-> "d1", duration |-> 2, outcome |-> "o1"] }

CourseIds == 1..(MaxCourses + 1)

UpdateInputs ==
  UNION {{ [id |-> i], [id |-> i, title |-> "t2", category |-> "cat2", duration |-> 2] } :
           i \in CourseIds}

SchemaCopies == {1, 2}
Orders == {"ASC", "DESC"}
Limits == {1, 100}
Categories == {"cat1", "cat2"}

RegisterInputs ==
  { [username |-> "alice", password |-> "pw1"],
    [username |-> "bob", password |-> "pw2", role |-> "Admin"] }

LoginInputs == {[username |-> u, password |-> p] : u \in Usernames, p \in LoginPasswords}

(***************************************************************************)
(* index.js: the context of a request, made before its fields resolve.     *)
(***************************************************************************)
Idle == [idle |-> TRUE]
NoArgs == <<>>
NoResponse == [op |-> "none"]

\* queries: the statements the resolver sent to the store, in order.
Response(op, args, user, err, value, queries) ==
  [op |-> op, args |-> args, user |-> user, err |-> err, value |-> value,
   queries |-> queries]

Init ==
  /\ courses = {}
  /\ nextCourseId = 1
  /\ users = {}
  /\ now = 0
  /\ issued = {}
  /\ ctx = Idle
  /\ pending = <<>>
  /\ resp = NoResponse

\* Time passes.
Tick(t) ==
  /\ t > now
  /\ now' = t
  /\ UNCHANGED <<courses, nextCourseId, users, issued, ctx, pending, resp>>

\* context: (req) => ({ client, user: authenticate(req) }). A context that
\* throws ends the request before any field resolves.
Context(req) ==
  /\ IF ctx = Idle THEN TRUE ELSE ctx.auth.threw
  /\ ctx' = [req |-> req, auth |-> authenticate(req, now), at |-> now]
  /\ resp' = NoResponse
  /\ UNCHANGED <<courses, nextCourseId, users, now, issued, pending>>

Serving == ctx # Idle /\ ~ctx.auth.threw

\* The resolver returned or threw: the request is answered.
Answer(op, args, err, value, queries) ==
  /\ resp' = Response(op, args, ctx.auth.value, err, value, queries)
  /\ ctx' = Idle

(***************************************************************************)
(* db/schema.js: RootQuery.                                                *)
(***************************************************************************)
Courses(order, limit) ==
  /\ Serving
  /\ Answer("courses", [order |-> order, limit |-> limit], NoError,
            [rows |-> SelectCourses(courses, order, limit)], <<"SELECT">>)
  /\ UNCHANGED <<courses, nextCourseId, users, now, issued, pending>>

Course(id) ==
  /\ Serving
  /\ Answer("course", [id |-> id], NoError, FirstRow(SelectCourseById(courses, id)),
            <<"SELECT">>)
  /\ UNCHANGED <<courses, nextCourseId, users, now, issued, pending>>

Collections ==
  /\ Serving
  /\ Answer("collections", NoArgs, NoError, [groups |-> SelectCollections(courses)],
            <<"SELECT">>)
  /\ UNCHANGED <<courses, nextCourseId, users, now, issued, pending>>

Collection(id) ==
  /\ Serving
  /\ Answer("collection", [id |-> id], NoError,
            FirstRow({g \in SelectCollections(courses) : g.id = id}), <<"SELECT">>)
  /\ UNCHANGED <<courses, nextCourseId, users, now, issued, pending>>

(***************************************************************************)
(* db/schema.js: Mutation.                                                 *)
(***************************************************************************)
Unauthorized == Error("Unauthorized, invalid or missing token")
OnlyAdmins == Error("Unauthorized, only admins can delete courses")
UnauthorizedBare == Error("Unauthorized")
CourseNotFound(id) == [message |-> "Course with ID ${id} not found", id |-> id]
UserNotFound == Error("User not found")
IncorrectPassword == Error("Incorrect password")
UniqueViolation == Error("duplicate key value violates unique constraint")

\* if (!user) throw new Error("Unauthorized, invalid or missing token")
AddCourseAccess(user) == IF user = Undefined THEN Unauthorized ELSE NoError

UpdateCourseAccess(user) == IF user = Undefined THEN Unauthorized ELSE NoError

\* deleteCourse open to every identity.
DeleteCourseAccessAnyRole(copy, user) ==
  IF user = Undefined THEN (IF copy = 1 THEN OnlyAdmins ELSE UnauthorizedBare)
  ELSE NoError

\* First copy: if (!user || user.role !== "Admin") throw ...
\* Second copy: if (!user) throw ...; if (user.role !== "Admin") throw ...
DeleteCourseAccess(copy, user) ==
  IF copy = 1
    THEN IF user = Undefined THEN OnlyAdmins
         ELSE IF user.role # "Admin" THEN OnlyAdmins ELSE NoError
    ELSE IF user = Undefined THEN UnauthorizedBare
         ELSE IF user.role # "Admin" THEN OnlyAdmins ELSE NoError

\* addCourse that inserts before it looks at the user.
AddCourseInsertFirst(input) ==
  LET denied == AddCourseAccess(ctx.auth.value)
      row == InsertCourseRow(nextCourseId, input)
  IN /\ Serving
     /\ nextCourseId <= MaxCourses
     /\ courses' = courses \cup {row}
     /\ nextCourseId' = nextCourseId + 1
     /\ IF denied # NoError
          THEN Answer("addCourse", input, denied, Undefined, <<"INSERT">>)
          ELSE Answer("addCourse", input, NoError, row, <<"INSERT">>)
     /\ UNCHANGED <<users, now, issued, pending>>

AddCourse(input) ==
  LET denied == AddCourseAccess(ctx.auth.value)
      row == InsertCourseRow(nextCourseId, input)
  IN /\ Serving
     /\ IF denied # NoError
          THEN /\ Answer("addCourse", input, denied, Undefined, <<>>)
               /\ UNCHANGED <<courses, nextCourseId>>
          ELSE /\ nextCourseId <= MaxCourses
               /\ courses' = courses \cup {row}
               /\ nextCourseId' = nextCourseId + 1
               /\ Answer("addCourse", input, NoError, row, <<"INSERT">>)
     /\ UNCHANGED <<users, now, issued, pending>>

UpdateCourse(args) ==
  LET denied == UpdateCourseAccess(ctx.auth.value)
      table == UpdateCourses(courses, args)
  IN /\ Serving
     /\ IF denied # NoError
          THEN /\ Answer("updateCourse", args, denied, Undefined, <<>>)
               /\ UNCHANGED courses
          ELSE /\ courses' = table
               /\ Answer("updateCourse", args, NoError,
                         FirstRow(SelectCourseById(table, args.id)), <<"UPDATE">>)
     /\ UNCHANGED <<nextCourseId, users, now, issued, pending>>

\* db/schema.js holds the schema twice; copy says which of the two serves
\* the request. The resolver with nothing else served between its SELECT
\* and its DELETE.
DeleteCourse(copy, id) ==
  LET args == [id |-> id, copy |-> copy]
      denied == DeleteCourseAccess(copy, ctx.auth.value)
      courseToDelete == FirstRow(SelectCourseById(courses, id))
  IN /\ Serving
     /\ IF denied # NoError
          THEN /\ Answer("deleteCourse", args, denied, Undefined, <<>>)
               /\ UNCHANGED courses
          ELSE IF courseToDelete = Undefined
          THEN /\ Answer("deleteCourse", args, CourseNotFound(id), Undefined, <<"SELECT">>)
               /\ UNCHANGED courses
          ELSE /\ courses' = DeleteCourseById(courses, id)
               /\ Answer("deleteCourse", args, NoError, courseToDelete,
                         <<"SELECT", "DELETE">>)
     /\ UNCHANGED <<nextCourseId, users, now, issued, pending>>

\* The resolver up to its first await: the access check and the SELECT. With
\* a row found it waits to send its DELETE while other requests are served.
DeleteCourseSelect(copy, id) ==
  LET args == [id |-> id, copy |-> copy]
      denied == DeleteCourseAccess(copy, ctx.auth.value)
      courseToDelete == FirstRow(SelectCourseById(courses, id))
  IN /\ Serving
     /\ IF denied # NoError
          THEN /\ Answer("deleteCourse", args, denied, Undefined, <<>>)
               /\ UNCHANGED pending
          ELSE IF courseToDelete = Undefined
          THEN /\ Answer("deleteCourse", args, CourseNotFound(id), Undefined, <<"SELECT">>)
               /\ UNCHANGED pending
          ELSE /\ Len(pending) < MaxPending
               /\ pending' = Append(pending, [args |-> args, user |-> ctx.auth.value,
                                              courseToDelete |-> courseToDelete])
               /\ ctx' = Idle
               /\ UNCHANGED resp
     /\ UNCHANGED <<courses, nextCourseId, users, now, issued>>

\* The rest of the resolver: the DELETE, and the row read earlier returned.
DeleteCourseDelete(i) ==
  LET p == pending[i]
  IN /\ courses' = DeleteCourseById(courses, p.args.id)
     /\ resp' = Response("deleteCourse", p.args, p.user, NoError, p.courseToDelete,
                         <<"SELECT", "DELETE">>)
     /\ pending' = [j \in 1..(Len(pending) - 1) |-> IF j < i THEN pending[j] ELSE pending[j + 1]]
     /\ UNCHANGED <<nextCourseId, users, now, issued, ctx>>

\* register that stores Regular whatever role the caller supplies.
RoleArgRegular(args) == "Regular"

\* role: { type: RoleType, defaultValue: 'Regular' }
RoleArg(args) == IF "role" \in DOMAIN args THEN args.role ELSE "Regular"

\* users.id is a UUID the store generates; a row's is named after the
\* username it was generated for.
Uuid(username) == <<"uuid", username>>

\* The users table takes one row per username.
UsernameTaken(table, username) == \E u \in table : u.username = username

Register(args) ==
  LET hashedPassword == hashPassword(args.password)
      row == [id |-> Uuid(args.username), username |-> args.username,
              password |-> hashedPassword, role |-> RoleArg(args)]
  IN /\ Serving
     /\ IF UsernameTaken(users, args.username)
          THEN /\ Answer("register", args, UniqueViolation, Undefined, <<"INSERT">>)
               /\ UNCHANGED users
          ELSE /\ Cardinality(users) < MaxUsers
               /\ users' = users \cup {row}
               /\ Answer("register", args, NoError, row, <<"INSERT">>)
     /\ UNCHANGED <<courses, nextCourseId, now, issued, pending>>

\* login that returns a token to whoever names a user.
LoginResolveNoPassword(table, args, clock) ==
  LET user == FirstRow(SelectUserByUsername(table, args.username))
  IN IF user = Undefined THEN [err |-> UserNotFound, value |-> Undefined]
     ELSE [err |-> NoError, value |-> generateToken(user, clock)]

\* Mutation.login.resolve: what it throws or returns.
LoginResolve(table, args, clock) ==
  LET user == FirstRow(SelectUserByUsername(table, args.username))
  IN IF user = Undefined THEN [err |-> UserNotFound, value |-> Undefined]
     ELSE IF hashPassword(args.password) # user.password
       THEN [err |-> IncorrectPassword, value |-> Undefined]
     ELSE [err |-> NoError, value |-> generateToken(user, clock)]

Login(args) ==
  LET out == LoginResolve(users, args, now)
  IN /\ Serving
     /\ Answer("login", args, out.err, out.value, <<"SELECT">>)
     /\ issued' = IF out.err = NoError /\ Cardinality(issued) < MaxTokens
                    THEN issued \cup {[token |-> out.value, at |-> now]}
                    ELSE issued
     /\ UNCHANGED <<courses, nextCourseId, users, now, pending>>

(***************************************************************************)
(* Specifications.                                                         *)
(***************************************************************************)
\* What the two specifications share.
Others ==
  \/ \E t \in ClockValues : Tick(t)
  \/ \E req \in Requests : Context(req)
  \/ \E order \in Orders, limit \in Limits : Courses(order, limit)
  \/ \E id \in CourseIds : Course(id)
  \/ Collections
  \/ \E id \in Categories : Collection(id)
  \/ \E input \in CourseInputs : AddCourse(input)
  \/ \E args \in UpdateInputs : UpdateCourse(args)
  \/ \E args \in RegisterInputs : Register(args)
  \/ \E args \in LoginInputs : Login(args)

\* Requests served one after the other.
Next ==
  \/ Others
  \/ \E copy \in SchemaCopies, id \in CourseIds : DeleteCourse(copy, id)

Spec == Init /\ [][Next]_vars

\* Requests served concurrently, interleaved at the store calls.
NextConc ==
  \/ Others
  \/ \E copy \in SchemaCopies, id \in CourseIds : DeleteCourseSelect(copy, id)
  \/ \E i \in 1..Len(pending) : DeleteCourseDelete(i)

SpecConc == Init /\ [][NextConc]_vars

(***************************************************************************)
(* Properties.                                                             *)
(***************************************************************************)
ReadOps == {"courses", "course", "collections", "collection"}
MutatingOps == {"addCourse", "updateCourse", "deleteCourse"}

\* The errors the access checks throw.
AccessErrors == {Unauthorized, OnlyAdmins, UnauthorizedBare}

Answered == resp.op # "none"
Denied == Answered /\ resp.err \in AccessErrors

\* C1: the access decision of every resolver is the tabulated one: reads,
\* register and login are never denied; addCourse and updateCourse are
\* denied iff there is no identity; deleteCourse is denied iff there is no
\* identity or its role is not Admin.
C1_AccessTable ==
  Answered =>
    IF resp.op \in MutatingOps
      THEN IF resp.op = "deleteCourse"
             THEN Denied <=> (IF resp.user = Undefined THEN TRUE
                              ELSE resp.user.role # "Admin")
             ELSE Denied <=> (resp.user = Undefined)
      ELSE ~Denied

\* A Regular identity was denied deleteCourse.
C1_Witness ==
  /\ Denied
  /\ resp.op = "deleteCourse"
  /\ resp.user # Undefined
  /\ resp.user.role = "Regular"

\* C2: a mutation the access check denies sends no statement to the store
\* and leaves courses and users as they were.
C2_DeniedTouchesNothing ==
  [][(resp' # resp /\ resp'.op \in MutatingOps /\ resp'.err \in AccessErrors) =>
       /\ resp'.queries = <<>>
       /\ courses' = courses
       /\ nextCourseId' = nextCourseId
       /\ users' = users]_vars

\* addCourse was denied after courses and users had been stored.
C2_Witness ==
  /\ Denied
  /\ resp.op = "addCourse"
  /\ courses # {}
  /\ users # {}

\* The parts of the Authorization header of a request.
HeaderParts(req) ==
  IF "authorization" \in DOMAIN req.headers
    THEN {req.headers.authorization[i] : i \in 1..Len(req.headers.authorization)}
    ELSE {}

\* C3: authenticate never throws, and it returns an identity only when the
\* request carries a token login issued (the only tokens with a valid
\* signature) that has not expired, and then that token's claims; on every
\* other request it returns undefined.
C3_AuthenticateNeverRaises ==
  ctx # Idle =>
    /\ ~ctx.auth.threw
    /\ ctx.auth.value # Undefined =>
         \E t \in HeaderParts(ctx.req) \cap IssuedTokens :
           /\ ctx.at \div 1000 < t.payload.exp
           /\ ctx.auth.value = t.payload

\* A request with an expired token was authenticated as anonymous.
C3_Witness ==
  /\ ctx # Idle
  /\ ~ctx.auth.threw
  /\ ctx.auth.value = Undefined
  /\ \E t \in IssuedTokens :
       /\ ctx.req = Header(<<W("Bearer"), t>>)
       /\ ctx.at \div 1000 >= t.payload.exp

\* The Authorization header has the form "Bearer <token>".
BearerForm(req) ==
  /\ "authorization" \in DOMAIN req.headers
  /\ Len(req.headers.authorization) = 2
  /\ req.headers.authorization[1] = W("Bearer")

\* C4: a request whose Authorization header is absent or not of the form
\* "Bearer <token>" is authenticated as anonymous.
C4_BearerOnly ==
  (ctx # Idle /\ ~BearerForm(ctx.req)) => ctx.auth.value = Undefined

IdentityFields == {"id", "username", "role"}

\* C5: the token a successful login returns, verified before its expiry,
\* decodes to the user's id, username and role, and its claims are these
\* and the times of issue and expiry, nothing else of the users row.
C5_RoundTrip ==
  (Answered /\ resp.op = "login" /\ resp.err = NoError
     /\ now \div 1000 < resp.value.payload.exp) =>
    LET v == verify(resp.value, key, now)
    IN /\ ~v.threw
       /\ \E u \in users :
            /\ u.username = resp.args.username
            /\ \A f \in IdentityFields : v.value[f] = u[f]
       /\ DOMAIN v.value \ {"iat", "exp"} = IdentityFields

\* The issued tokens the request carries where authenticate looks.
Carried == {i \in issued : BearerToken(ctx.req) = i.token}

\* C6 as stated: a token issued at T is an identity at every instant before
\* T + 3 h and anonymous at every instant after it.
C6_ExpiryAtThreeHours ==
  ctx # Idle =>
    \A i \in Carried :
      /\ ctx.at < i.at + ExpiresIn * 1000 => ctx.auth.value = i.token.payload
      /\ ctx.at > i.at + ExpiresIn * 1000 => ctx.auth.value = Undefined

\* A token issued at T (milliseconds) expires at the whole second
\* floor(T / 1000) + 10800.
Authenticated ==
  ctx # Idle =>
    \A i \in Carried :
      IF ctx.at \div 1000 < (i.at \div 1000) + ExpiresIn
        THEN ctx.auth.value = i.token.payload
        ELSE ctx.auth.value = Undefined

\* C6: a request carrying a token issued at T is authenticated as its
\* identity iff the clock, in whole seconds, is below floor(T / 1000) + 10800
\* (so at every instant up to T + 3 h - 1 s), and as anonymous from then on
\* (so at every instant from T + 3 h on); the mutations of a request
\* authenticated as anonymous are denied and change no course.
C6_Expiry ==
  [][/\ Authenticated'
     /\ (ctx # Idle /\ ctx.auth.value = Undefined /\ resp' # resp
           /\ resp'.op \in MutatingOps) =>
          (resp'.err \in AccessErrors /\ courses' = courses)]_vars

\* A token was refused within a second before T + 3 h.
C6_Witness ==
  /\ ctx # Idle
  /\ \E i \in Carried :
       /\ ctx.at < i.at + ExpiresIn * 1000
       /\ ctx.at \div 1000 >= (i.at \div 1000) + ExpiresIn
       /\ ctx.auth.value = Undefined

\* A users row has the username and the digest of the password.
CredentialMatches(table, args) ==
  \E u \in table : u.username = args.username /\ u.password = hashPassword(args.password)

\* C7 as stated: every login that fails fails with the one same error.
C7_OneErrorKind ==
  (Answered /\ resp.op = "login" /\ resp.err # NoError) =>
    \A a \in LoginInputs : LoginResolve(users, a, now).err \in {NoError, resp.err}

\* C7: login returns a token iff a users row has the username and the
\* digest of the password; otherwise it returns no token and throws
\* "User not found" when no row has the username and "Incorrect password"
\* when the digests differ.
C7_Login ==
  (Answered /\ resp.op = "login") =>
    IF CredentialMatches(users, resp.args)
      THEN /\ resp.err = NoError
           /\ resp.value.kind = "jwt"
           /\ resp.value.payload.username = resp.args.username
      ELSE /\ resp.value = Undefined
           /\ resp.err = IF UsernameTaken(users, resp.args.username)
                           THEN IncorrectPassword ELSE UserNotFound

\* login failed on the password of a registered user.
C7_Witness ==
  /\ Answered
  /\ resp.op = "login"
  /\ resp.err = IncorrectPassword
  /\ UsernameTaken(users, resp.args.username)

\* C8: deleteCourse(id) by an Admin: with no such course it throws not found,
\* sends no DELETE and leaves the store as it was; otherwise it returns the
\* row as it was, no course has the id afterwards and every other course is
\* as it was.
C8_DeleteCourse ==
  [][(resp' # resp /\ resp'.op = "deleteCourse" /\ resp'.user # Undefined
        /\ resp'.user.role = "Admin") =>
       LET id == resp'.args.id
           found == SelectCourseById(courses, id)
       IN IF found = {}
            THEN /\ resp'.err = CourseNotFound(id)
                 /\ resp'.queries = <<"SELECT">>
                 /\ courses' = courses
            ELSE /\ resp'.err = NoError
                 /\ found = {resp'.value}
                 /\ SelectCourseById(courses', id) = {}
                 /\ courses' = {c \in courses : c.id # id}]_vars

\* A course was deleted and another is still stored.
C8_Witness ==
  /\ Answered
  /\ resp.op = "deleteCourse"
  /\ resp.err = NoError
  /\ courses # {}

\* C9: the error of deleteCourse denied to a valid identity is not the
\* error a mutation throws without identity, nor the not-found error.
C9_DistinctDenials ==
  (Denied /\ resp.op = "deleteCourse" /\ resp.user # Undefined) =>
    /\ resp.err # AddCourseAccess(Undefined)
    /\ resp.err # UpdateCourseAccess(Undefined)
    /\ resp.err # DeleteCourseAccess(resp.args.copy, Undefined)
    /\ resp.err # CourseNotFound(resp.args.id)

\* C10: a deleteCourse that returns a row deleted that very row: at its DELETE
\* the store held the row it returns.
C10_SingleStoreOperation ==
  [][Len(pending') < Len(pending) => resp'.value \in courses]_vars

\* C11: register is never denied, whoever calls it, and stores the role the
\* caller supplies (Regular when none); the token of a successful login has
\* the role of the stored row; deleteCourse is not denied to an identity
\* whose role is Admin. So register(role: Admin), login, deleteCourse lets a
\* caller without a token delete.
C11_SelfChosenAdmin ==
  Answered =>
    /\ resp.op = "register" =>
         /\ ~Denied
         /\ resp.err = NoError =>
              /\ resp.value \in users
              /\ resp.value.role = IF "role" \in DOMAIN resp.args
                                     THEN resp.args.role ELSE "Regular"
    /\ (resp.op = "login" /\ resp.err = NoError) =>
         \E u \in users :
           /\ u.username = resp.args.username
           /\ resp.value.payload.role = u.role
    /\ (resp.op = "deleteCourse" /\ resp.user # Undefined /\ resp.user.role = "Admin") =>
         ~Denied

\* A course was deleted with the token of the only user there is, who
\* registered as Admin when no token had been issued yet.
C11_Witness ==
  /\ Answered
  /\ resp.op = "deleteCourse"
  /\ resp.err = NoError
  /\ resp.user \in {i.token.payload : i \in issued}
  /\ users = {[id |-> Uuid("bob"), username |-> "bob", password |-> hashPassword("pw2"),
               role |-> "Admin"]}
  /\ resp.user.username = "bob"

====
